---- MODULE Spec2Model ----
(***************************************************************************)
(* Model of config-driven-egui (src/src/main.rs): a declarative widget     *)
(* tree is walked once per frame against a mutable HandlerContext; value   *)
(* expressions (AsU32, AsString) are read, the result is handed to the     *)
(* egui surface, and the widget's handler runs when the surface reports a  *)
(* change or a click.                                                      *)
(*                                                                         *)
(* u32 values are pairs <<hi, lo>> of 16-bit limbs (value = hi*2^16 + lo), *)
(* so that the full 32-bit width is kept.                                  *)
(***************************************************************************)
EXTENDS Integers, Sequences, FiniteSets, TLC

VARIABLES
    config,           \* Engine.config
    context,          \* Engine.context : HandlerContext
    overflow_checks,  \* build profile: TRUE = debug (overflow panics), FALSE = release (wraps)
    panicked,         \* the process has unwound out of Engine::update
    frames,           \* history: one record per call of Engine::update
    original,         \* a constructed Config (serialization round trip)
    yaml,             \* its serialized document
    reloaded,         \* the Config deserialized from yaml
    stage             \* position of the round trip

vars == <<config, context, overflow_checks, panicked, frames,
          original, yaml, reloaded, stage>>

engineVars == <<config, context, overflow_checks, panicked, frames>>
serdeVars == <<original, yaml, reloaded, stage>>

-----------------------------------------------------------------------------
(* Bounds *)

MaxFrames == 3
MaxSerdeWidgets == 2

-----------------------------------------------------------------------------
(* u32 *)

LimbBase == 2^16

U32Of(n) == <<n \div LimbBase, n % LimbBase>>

U32_MAX == <<LimbBase - 1, LimbBase - 1>>

U32Leq(a, b) == a[1] < b[1] \/ (a[1] = b[1] /\ a[2] <= b[2])

\* a + 1 modulo 2^32
U32WrappingSucc(a) ==
    IF a[2] = LimbBase - 1
    THEN <<(a[1] + 1) % LimbBase, 0>>
    ELSE <<a[1], a[2] + 1>>

\* RangeInclusive<u32>::contains
RangeContains(range, v) == U32Leq(range.start, v) /\ U32Leq(v, range.end)

\* Display for u32: decimal digits, no leading zeros
U32DivTen(a) ==
    LET r == a[1] % 10
        t == r * LimbBase + a[2]
    IN  [quot |-> <<a[1] \div 10, t \div 10>>, rem |-> t % 10]

RECURSIVE U32ToString(_)
U32ToString(a) ==
    LET d == U32DivTen(a)
    IN  IF d.quot = <<0, 0>>
        THEN ToString(d.rem)
        ELSE U32ToString(d.quot) \o ToString(d.rem)

-----------------------------------------------------------------------------
(* Option<String> *)

None == <<>>
Some(s) == <<s>>

-----------------------------------------------------------------------------
(* HandlerContext and the demo handlers *)

HandlerContext_default == [name |-> "Arthur", age |-> U32Of(42)]

\* mutant: set_age stores value + 1
HandlerU32_run_off_by_one(handler, value, ctx) ==
    CASE handler = "set_age" -> [ctx EXCEPT !.age = U32WrappingSucc(value)]

HandlerU32_run(handler, value, ctx) ==
    CASE handler = "set_age" -> [ctx EXCEPT !.age = value]

HandlerString_run(handler, value, ctx) ==
    CASE handler = "set_name" -> [ctx EXCEPT !.name = value]

\* mutant: increment_age adds 2
Handler_run_by_two(handler, ctx, checks) ==
    CASE handler = "increment_age" ->
        [context |-> [ctx EXCEPT !.age = U32WrappingSucc(U32WrappingSucc(ctx.age))],
         panicked |-> FALSE]

\* context.age += 1 : overflow panics when overflow checks are compiled in,
\* and wraps otherwise.
Handler_run(handler, ctx, checks) ==
    CASE handler = "increment_age" ->
        IF ctx.age = U32_MAX /\ checks
        THEN [context |-> ctx, panicked |-> TRUE]
        ELSE [context |-> [ctx EXCEPT !.age = U32WrappingSucc(ctx.age)],
              panicked |-> FALSE]

-----------------------------------------------------------------------------
(* Demo readers *)

GetAge == [tag |-> "get_age"]
LiteralU32(n) == [tag |-> "literal", val |-> n]

GetName == [tag |-> "get_name"]
Hello == [tag |-> "hello"]
LiteralString(s) == [tag |-> "literal", val |-> s]

as_u32(expr, ctx) ==
    CASE expr.tag = "get_age" -> ctx.age
      [] expr.tag = "literal" -> expr.val

as_string(expr, ctx) ==
    CASE expr.tag = "get_name" -> ctx.name
      [] expr.tag = "hello" ->
            "Hello '" \o ctx.name \o "', age " \o U32ToString(ctx.age)
      [] expr.tag = "literal" -> expr.val

-----------------------------------------------------------------------------
(* Widgets, containers, config *)

Label(text, id) == [type |-> "label", text |-> text, id |-> id]
HorizontalLayout(widgets) == [type |-> "horizontal_layout", widgets |-> widgets]
Slider(range, text, value, on_change) ==
    [type |-> "slider", range |-> range, text |-> text, value |-> value,
     on_change |-> on_change]
Button(text, on_click) == [type |-> "button", text |-> text, on_click |-> on_click]
Image(src) == [type |-> "image", src |-> src]
TextEdit(value, on_change, label_id) ==
    [type |-> "text_edit", value |-> value, on_change |-> on_change,
     label_id |-> label_id]

CentralPanel(widgets) == [type |-> "central_panel", widgets |-> widgets]

Config(name, containers) == [name |-> name, containers |-> containers]

Range(lo, hi) == [start |-> lo, end |-> hi]

-----------------------------------------------------------------------------
(* The egui surface.  ui.add(widget) returns a Response; the walk reads     *)
(* response.changed() for Slider and TextEdit and response.clicked() for    *)
(* Button.  A frame's surface is a function from the path of each widget    *)
(* occurrence to the response egui gives there.  A changed Slider leaves a  *)
(* value inside its range in `value` (egui clamps to the range).  Labels    *)
(* and images get a response too (it may report a click); the walk drops it.*)

Quiet == [signal |-> FALSE]
Clicked == [signal |-> TRUE]
ChangedTo(v) == [signal |-> TRUE, value |-> v]

SliderInputs == {U32Of(50), U32Of(100), U32_MAX}
TextInputs == {"Bob"}

ResponsesFor(widget) ==
    CASE widget.type = "slider" ->
            {Quiet} \cup {ChangedTo(v) : v \in {u \in SliderInputs : RangeContains(widget.range, u)}}
      [] widget.type = "text_edit" -> {Quiet} \cup {ChangedTo(s) : s \in TextInputs}
      [] widget.type = "button" -> {Quiet, Clicked}
      [] widget.type = "label" -> {Quiet, Clicked}
      [] widget.type = "image" -> {Quiet, Clicked}

-----------------------------------------------------------------------------
(* Events recorded during a frame *)

AddEvent(path, widget, shown) ==
    [op |-> "add", path |-> path, widget |-> widget.type, shown |-> shown]

RunEvent(path, handler, arg, before, after, outcome) ==
    [op |-> "run", path |-> path, handler |-> handler, arg |-> arg,
     before |-> before, after |-> after, outcome |-> outcome]

\* ui.add(...): the surface receives what was evaluated
Add(ws, path, widget, shown) ==
    [ws EXCEPT !.trace = Append(@, AddEvent(path, widget, shown))]

\* a handler returned normally with the context `after`
Ran(ws, path, handler, arg, after) ==
    [ws EXCEPT !.context = after,
               !.trace = Append(@, RunEvent(path, handler, arg, ws.context, after, "ok"))]

\* a handler panicked: the walk unwinds, the context keeps its value
Unwound(ws, path, handler, arg) ==
    [ws EXCEPT !.panicked = TRUE,
               !.trace = Append(@, RunEvent(path, handler, arg, ws.context, ws.context, "panic"))]

-----------------------------------------------------------------------------
(* HandlerContext::update_widget, one operator per match arm.               *)
(* ws  = [context, trace, panicked] : the walk so far                       *)
(* env = [ui, overflow_checks]      : this frame's surface and the build    *)

update_label(ws, label, path, env) ==
    Add(ws, path, label, [text |-> as_string(label.text, ws.context)])

\* mutant: on_change runs before the value and the text are evaluated
update_slider_write_first(ws, slider, path, env) ==
    LET response == env.ui[path]
        written == IF response.signal
                   THEN Ran(ws, path, slider.on_change, [u32 |-> response.value],
                            HandlerU32_run(slider.on_change, response.value, ws.context))
                   ELSE ws
    IN  Add(written, path, slider,
            [value |-> as_u32(slider.value, written.context), range |-> slider.range,
             text |-> as_string(slider.text, written.context)])

update_slider(ws, slider, path, env) ==
    LET value == as_u32(slider.value, ws.context)
        text == as_string(slider.text, ws.context)
        shown == Add(ws, path, slider,
                     [value |-> value, range |-> slider.range, text |-> text])
        response == env.ui[path]
    IN  IF response.signal
        THEN Ran(shown, path, slider.on_change, [u32 |-> response.value],
                 HandlerU32_run(slider.on_change, response.value, shown.context))
        ELSE shown

\* mutant: on_click runs whether or not the surface reported a click
update_button_always(ws, button, path, env) ==
    LET shown == Add(ws, path, button, [text |-> as_string(button.text, ws.context)])
        r == Handler_run(button.on_click, shown.context, env.overflow_checks)
    IN  IF r.panicked
        THEN Unwound(shown, path, button.on_click, [unit |-> TRUE])
        ELSE Ran(shown, path, button.on_click, [unit |-> TRUE], r.context)

update_button(ws, button, path, env) ==
    LET shown == Add(ws, path, button, [text |-> as_string(button.text, ws.context)])
        button_response == env.ui[path]
    IN  IF button_response.signal
        THEN LET r == Handler_run(button.on_click, shown.context, env.overflow_checks)
             IN  IF r.panicked
                 THEN Unwound(shown, path, button.on_click, [unit |-> TRUE])
                 ELSE Ran(shown, path, button.on_click, [unit |-> TRUE], r.context)
        ELSE shown

update_image(ws, image, path, env) ==
    Add(ws, path, image, [uri |-> "file://" \o as_string(image.src, ws.context)])

\* mutant: a reported change dispatches on_change twice
update_text_edit_twice(ws, text_edit, path, env) ==
    LET value == as_string(text_edit.value, ws.context)
        shown == Add(ws, path, text_edit, [value |-> value])
        response == env.ui[path]
        once == Ran(shown, path, text_edit.on_change, [string |-> response.value],
                    HandlerString_run(text_edit.on_change, response.value, shown.context))
    IN  IF response.signal
        THEN Ran(once, path, text_edit.on_change, [string |-> response.value],
                 HandlerString_run(text_edit.on_change, response.value, once.context))
        ELSE shown

update_text_edit(ws, text_edit, path, env) ==
    LET value == as_string(text_edit.value, ws.context)
        shown == Add(ws, path, text_edit, [value |-> value])
        response == env.ui[path]
    IN  IF response.signal
        THEN Ran(shown, path, text_edit.on_change, [string |-> response.value],
                 HandlerString_run(text_edit.on_change, response.value, shown.context))
        ELSE shown

RECURSIVE update_widget(_, _, _, _)
RECURSIVE for_each_widget(_, _, _, _, _)

\* for widget in &widgets { self.update_widget(widget, ui); }  from index i on
for_each_widget(ws, widgets, i, path, env) ==
    IF i > Len(widgets) \/ ws.panicked
    THEN ws
    ELSE for_each_widget(update_widget(ws, widgets[i], Append(path, i), env),
                         widgets, i + 1, path, env)

\* mutant: the children are walked against a clone of the context, whose
\* mutations are dropped when the layout closes
update_layout_on_clone(ws, layout, path, env) ==
    [for_each_widget(ws, layout.widgets, 1, path, env) EXCEPT !.context = ws.context]

update_layout(ws, layout, path, env) ==
    for_each_widget(ws, layout.widgets, 1, path, env)

update_widget(ws, widget, path, env) ==
    CASE widget.type = "label" -> update_label(ws, widget, path, env)
      [] widget.type = "horizontal_layout" -> update_layout(ws, widget, path, env)
      [] widget.type = "slider" -> update_slider(ws, widget, path, env)
      [] widget.type = "button" -> update_button(ws, widget, path, env)
      [] widget.type = "image" -> update_image(ws, widget, path, env)
      [] widget.type = "text_edit" -> update_text_edit(ws, widget, path, env)

\* mutant: the first widget of a container is skipped
update_container_skip_first(ws, container, path, env) ==
    CASE container.type = "central_panel" ->
        for_each_widget(ws, container.widgets, 2, path, env)

update_container(ws, container, path, env) ==
    CASE container.type = "central_panel" ->
        for_each_widget(ws, container.widgets, 1, path, env)

\* Engine::update: for container in &self.config.containers, from index c on
RECURSIVE update(_, _, _, _)
update(ws, cfg, c, env) ==
    IF c > Len(cfg.containers) \/ ws.panicked
    THEN ws
    ELSE update(update_container(ws, cfg.containers[c], <<c>>, env), cfg, c + 1, env)

-----------------------------------------------------------------------------
(* Configurations the engine is started with (config/app.yaml, deserialized *)
(* by main before the frame loop).                                          *)

\* one Slider bound to age over 0..=100 and one incrementing Button
ScenarioConfig ==
    Config("scenario",
      << CentralPanel(<<
           Slider(Range(U32Of(0), U32Of(100)), LiteralString("age"), GetAge, "set_age"),
           Button(LiteralString("Increment"), "increment_age") >>) >>)

\* a name editor inside a layout, and a greeting in a second container
NameConfig ==
    Config("name",
      << CentralPanel(<<
           HorizontalLayout(<<
             Label(LiteralString("Your name: "), Some("name_label")),
             TextEdit(GetName, "set_name", Some("name_label")) >>) >>),
         CentralPanel(<< Label(Hello, None) >>) >>)

\* a Slider over the whole u32 range and a Button
WideConfig ==
    Config("wide",
      << CentralPanel(<<
           Slider(Range(U32Of(0), U32_MAX), Hello, GetAge, "set_age"),
           Button(GetName, "increment_age") >>) >>)

\* two Sliders in nested layouts, the inner range inside the outer one
NestedConfig ==
    Config("nested",
      << CentralPanel(<<
           HorizontalLayout(<<
             Slider(Range(U32Of(0), U32Of(100)), LiteralString("age"), GetAge, "set_age"),
             HorizontalLayout(<<
               Slider(Range(U32Of(50), U32Of(100)), Hello, LiteralU32(U32Of(75)),
                      "set_age") >>) >>) >>) >>)

\* two Sliders bound to age with different ranges
TwoRangeConfig ==
    Config("two_range",
      << CentralPanel(<<
           Slider(Range(U32Of(0), U32Of(50)), LiteralString("young"), GetAge, "set_age"),
           Slider(Range(U32Of(0), U32Of(100)), LiteralString("any"), GetAge, "set_age") >>) >>)

\* a Slider whose value expression starts outside its range, and an Image
OutOfRangeConfig ==
    Config("out_of_range",
      << CentralPanel(<<
           Slider(Range(U32Of(50), U32Of(100)), LiteralString("age"), GetAge, "set_age"),
           Image(LiteralString("ferris.png")) >>) >>)

Configs == {ScenarioConfig, NameConfig, WideConfig, NestedConfig, TwoRangeConfig,
            OutOfRangeConfig}

-----------------------------------------------------------------------------
(* Widget occurrences of a configuration, by path *)

RECURSIVE LeavesOf(_, _, _)
\* the <<path, widget>> pairs of the non-layout widgets of widgets[i..], in
\* declared depth-first order
LeavesOf(widgets, i, path) ==
    IF i > Len(widgets)
    THEN <<>>
    ELSE LET w == widgets[i]
             here == IF w.type = "horizontal_layout"
                     THEN LeavesOf(w.widgets, 1, Append(path, i))
                     ELSE << <<Append(path, i), w>> >>
         IN  here \o LeavesOf(widgets, i + 1, path)

RECURSIVE ConfigLeavesFrom(_, _)
ConfigLeavesFrom(cfg, c) ==
    IF c > Len(cfg.containers)
    THEN <<>>
    ELSE LeavesOf(cfg.containers[c].widgets, 1, <<c>>) \o ConfigLeavesFrom(cfg, c + 1)

ConfigLeaves(cfg) == ConfigLeavesFrom(cfg, 1)

LeafPaths(cfg) == {ConfigLeaves(cfg)[k][1] : k \in 1..Len(ConfigLeaves(cfg))}

WidgetAt(cfg, path) ==
    LET l == ConfigLeaves(cfg)
    IN  l[CHOOSE k \in 1..Len(l) : l[k][1] = path][2]

RECURSIVE SurfacesOver(_, _)
\* every assignment of a possible response to each leaf of `leaves`
SurfacesOver(leaves, k) ==
    IF k > Len(leaves)
    THEN {<<>>}
    ELSE {(leaves[k][1] :> r) @@ f :
            r \in ResponsesFor(leaves[k][2]), f \in SurfacesOver(leaves, k + 1)}

Surfaces(cfg) == SurfacesOver(ConfigLeaves(cfg), 1)

-----------------------------------------------------------------------------
(* The engine: main constructs it, eframe calls Engine::update every frame *)

NoSerde ==
    /\ original = Config("", <<>>)
    /\ yaml = [y |-> "null"]
    /\ reloaded = [ok |-> FALSE]
    /\ stage = "unused"

Init ==
    /\ config \in Configs
    /\ context = HandlerContext_default
    /\ overflow_checks \in BOOLEAN
    /\ panicked = FALSE
    /\ frames = <<>>
    /\ NoSerde

\* One call of Engine::update with the surface `ui`
Frame(ui) ==
    LET start == [context |-> context, trace |-> <<>>, panicked |-> FALSE]
        env == [ui |-> ui, overflow_checks |-> overflow_checks]
        end == update(start, config, 1, env)
    IN  /\ context' = end.context
        /\ panicked' = end.panicked
        /\ frames' = Append(frames, [ui |-> ui, before |-> context,
                                     after |-> end.context, trace |-> end.trace,
                                     completed |-> ~end.panicked])
        /\ UNCHANGED <<config, overflow_checks>>

EngineUpdate ==
    /\ ~panicked
    /\ Len(frames) < MaxFrames
    /\ \E ui \in Surfaces(config) : Frame(ui)
    /\ UNCHANGED serdeVars

Next == EngineUpdate

Spec == Init /\ [][Next]_vars

-----------------------------------------------------------------------------
(* Reading the history *)

\* The frame that just ended.  The history only grows, one frame per step, so
\* every frame of every behaviour is the newest frame of some reachable state:
\* a property of the newest frame in every reachable state is a property of
\* all frames.
FrameIds == IF frames = <<>> THEN {} ELSE {Len(frames)}

\* what update_widget hands to the surface for `widget` when the context is ctx
ShownOf(widget, ctx) ==
    CASE widget.type = "label" -> [text |-> as_string(widget.text, ctx)]
      [] widget.type = "slider" ->
            [value |-> as_u32(widget.value, ctx), range |-> widget.range,
             text |-> as_string(widget.text, ctx)]
      [] widget.type = "button" -> [text |-> as_string(widget.text, ctx)]
      [] widget.type = "image" -> [uri |-> "file://" \o as_string(widget.src, ctx)]
      [] widget.type = "text_edit" -> [value |-> as_string(widget.value, ctx)]

IsAdd(e) == e.op = "add"
IsRun(e) == e.op = "run"

Adds(f) == SelectSeq(f.trace, IsAdd)

\* the context left by the handlers that ran before position i of frame f
ContextAt(f, i) ==
    LET earlier == {j \in 1..(i - 1) : IsRun(f.trace[j])}
    IN  IF earlier = {}
        THEN f.before
        ELSE f.trace[CHOOSE j \in earlier : \A m \in earlier : m <= j].after

\* the surface reported nothing for any widget
Idle(f) == \A p \in DOMAIN f.ui : ~f.ui[p].signal

Interactive == {"slider", "button", "text_edit"}

Sliders(cfg) ==
    {ConfigLeaves(cfg)[k][2] : k \in {m \in 1..Len(ConfigLeaves(cfg)) :
                                        ConfigLeaves(cfg)[m][2].type = "slider"}}

Buttons(cfg) ==
    {ConfigLeaves(cfg)[k][2] : k \in {m \in 1..Len(ConfigLeaves(cfg)) :
                                        ConfigLeaves(cfg)[m][2].type = "button"}}

\* b = a + 1 as numbers (no wrap-around)
U32IsSucc(a, b) ==
    \/ a[2] < LimbBase - 1 /\ b = <<a[1], a[2] + 1>>
    \/ a[2] = LimbBase - 1 /\ a[1] < LimbBase - 1 /\ b = <<a[1] + 1, 0>>

-----------------------------------------------------------------------------
(* C1: read-before-write.  Whenever a widget's handler runs in a frame, the *)
(* widget's own value and text were evaluated and handed to the surface     *)
(* earlier in that frame, against the context as it was just before the     *)
(* handler ran; no evaluation of that widget follows its handler's run.     *)
C1_ReadBeforeWrite ==
    \A k \in FrameIds :
        LET t == frames[k].trace
        IN  \A j \in 1..Len(t) :
                IsRun(t[j]) =>
                    /\ \E i \in 1..(j - 1) :
                          /\ IsAdd(t[i])
                          /\ t[i].path = t[j].path
                          /\ t[i].shown = ShownOf(WidgetAt(config, t[j].path), t[j].before)
                    /\ \A i \in 1..Len(t) :
                          IsAdd(t[i]) /\ t[i].path = t[j].path => i < j

\* a Slider reading get_age whose set_age changed the age in that frame
C1_Witness ==
    \E k \in FrameIds :
        \E j \in 1..Len(frames[k].trace) :
            LET e == frames[k].trace[j]
            IN  /\ IsRun(e)
                /\ e.handler = "set_age"
                /\ e.after.age # e.before.age
                /\ WidgetAt(config, e.path).value = GetAge

-----------------------------------------------------------------------------
(* C2 as stated: every value evaluated and rendered during a frame, for any *)
(* widget (also one walked after a widget that fired), reflects the context *)
(* as it was when the frame started.                                        *)
C2_FrameStartValues ==
    \A k \in FrameIds :
        LET t == frames[k].trace
        IN  \A i \in 1..Len(t) :
                IsAdd(t[i]) =>
                    t[i].shown = ShownOf(WidgetAt(config, t[i].path), frames[k].before)

(* C2 amended: every value evaluated and rendered for a widget reflects the *)
(* context as left by the handlers of the widgets walked before it in that  *)
(* frame (the frame-start context when none fired before it); the frame     *)
(* ends in the context left by its last handler, and the next frame starts  *)
(* from it.                                                                 *)
C2_ValuesFollowEarlierCommands ==
    \A k \in FrameIds :
        LET f == frames[k]
        IN  /\ \A i \in 1..Len(f.trace) :
                  IsAdd(f.trace[i]) =>
                      f.trace[i].shown =
                          ShownOf(WidgetAt(config, f.trace[i].path), ContextAt(f, i))
            /\ f.after = ContextAt(f, Len(f.trace) + 1)
            /\ k > 1 => f.before = frames[k - 1].after
            /\ k = Len(frames) => context = f.after

\* a widget walked after a firing widget shows the new state in the same frame
C2_Witness ==
    \E k \in FrameIds :
        \E i \in 1..Len(frames[k].trace) :
            LET e == frames[k].trace[i]
            IN  /\ IsAdd(e)
                /\ e.shown # ShownOf(WidgetAt(config, e.path), frames[k].before)
                /\ e.shown = ShownOf(WidgetAt(config, e.path), ContextAt(frames[k], i))

-----------------------------------------------------------------------------
(* C3: idempotence under no input.  A frame in which the surface reports no *)
(* change and no activation for any widget completes and leaves name and    *)
(* age exactly unchanged; two such frames in a row hand exactly the same    *)
(* values to the surface for every widget.                                  *)
C3_IdleFrameIdempotent ==
    \A k \in FrameIds :
        Idle(frames[k]) =>
            /\ frames[k].completed
            /\ frames[k].after = frames[k].before
            /\ (k = Len(frames) => context = frames[k].before)
            /\ (k > 1 /\ Idle(frames[k - 1]) => Adds(frames[k]) = Adds(frames[k - 1]))

\* two idle frames in a row, after a frame that changed the state, in a
\* configuration that has commands
C3_Witness ==
    /\ Len(frames) = 3
    /\ ~Idle(frames[1])
    /\ frames[1].after # HandlerContext_default
    /\ Idle(frames[2])
    /\ Idle(frames[3])
    /\ \E p \in LeafPaths(config) : WidgetAt(config, p).type \in Interactive

-----------------------------------------------------------------------------
(* C4: in every frame each widget occurrence invokes its handler zero or    *)
(* one times: exactly once when it is a Slider, TextEdit or Button that was *)
(* handed to the surface and the surface reported changed / clicked there,  *)
(* and never otherwise; Label, Image and HorizontalLayout never invoke one. *)
C4_OneDispatchPerSignal ==
    \A k \in FrameIds :
        LET f == frames[k]
            t == f.trace
            RunsAt(p) == {j \in 1..Len(t) : IsRun(t[j]) /\ t[j].path = p}
            Reported(p) == /\ \E i \in 1..Len(t) : IsAdd(t[i]) /\ t[i].path = p
                           /\ f.ui[p].signal
        IN  /\ \A j \in 1..Len(t) : IsRun(t[j]) => t[j].path \in LeafPaths(config)
            /\ \A p \in LeafPaths(config) :
                  Cardinality(RunsAt(p)) =
                      IF WidgetAt(config, p).type \in Interactive /\ Reported(p)
                      THEN 1 ELSE 0

\* a completed frame in which a TextEdit reported a change, one Label
\* reported a click and another Label reported nothing
C4_Witness ==
    \E k \in FrameIds :
        LET f == frames[k]
        IN  /\ f.completed
            /\ \E p \in LeafPaths(config) :
                  WidgetAt(config, p).type = "text_edit" /\ f.ui[p].signal
            /\ \E p \in LeafPaths(config) :
                  WidgetAt(config, p).type = "label" /\ f.ui[p].signal
            /\ \E p \in LeafPaths(config) :
                  WidgetAt(config, p).type = "label" /\ ~f.ui[p].signal

-----------------------------------------------------------------------------
(* C5: each command performs exactly its declared mutation: set_age(v)      *)
(* leaves age = v and name unchanged, set_name(s) leaves name = s and age   *)
(* unchanged, increment_age leaves age = old age + 1 and name unchanged.    *)
C5_DeclaredMutation ==
    \A k \in FrameIds :
        \A j \in 1..Len(frames[k].trace) :
            LET e == frames[k].trace[j]
            IN  IsRun(e) =>
                    CASE e.handler = "set_age" ->
                            e.after.age = e.arg.u32 /\ e.after.name = e.before.name
                      [] e.handler = "set_name" ->
                            e.after.name = e.arg.string /\ e.after.age = e.before.age
                      [] e.handler = "increment_age" ->
                            /\ U32IsSucc(e.before.age, e.after.age)
                            /\ e.after.name = e.before.name

-----------------------------------------------------------------------------
(* C6: every command is total: no handler run panics, and increment_age     *)
(* never wraps around, in any reachable context.                            *)
C6_CommandsTotal ==
    /\ ~panicked
    /\ \A k \in FrameIds :
          \A j \in 1..Len(frames[k].trace) :
              LET e == frames[k].trace[j]
              IN  IsRun(e) =>
                      /\ e.outcome = "ok"
                      /\ e.handler = "increment_age" => U32Leq(e.before.age, e.after.age)

-----------------------------------------------------------------------------
(* C7: end-to-end scenario over ScenarioConfig and the default context.     *)
(* Frame 1, the Slider reports changed with 50: afterwards age = 50.        *)
(* Frame 2, no interaction: the Slider is handed the value 50 and age stays *)
(* 50.  Frame 3, the Button reports clicked: afterwards age = 51.           *)

SliderPath == <<1, 1>>
ButtonPath == <<1, 2>>

SlideTo50 == (SliderPath :> ChangedTo(U32Of(50))) @@ (ButtonPath :> Quiet)
NoInteraction == (SliderPath :> Quiet) @@ (ButtonPath :> Quiet)
ClickButton == (SliderPath :> Quiet) @@ (ButtonPath :> Clicked)

ScenarioRuns(n) ==
    /\ config = ScenarioConfig
    /\ Len(frames) >= n
    /\ frames[1].before = HandlerContext_default
    /\ n >= 1 => frames[1].ui = SlideTo50
    /\ n >= 2 => frames[2].ui = NoInteraction
    /\ n >= 3 => frames[3].ui = ClickButton

C7_Scenario ==
    /\ ScenarioRuns(1) =>
          /\ frames[1].after.age = U32Of(50)
          /\ Len(frames) = 1 => context.age = U32Of(50)
    /\ ScenarioRuns(2) =>
          /\ \E i \in 1..Len(frames[2].trace) :
                /\ IsAdd(frames[2].trace[i])
                /\ frames[2].trace[i].path = SliderPath
                /\ frames[2].trace[i].shown.value = U32Of(50)
          /\ frames[2].after.age = U32Of(50)
          /\ Len(frames) = 2 => context.age = U32Of(50)
    /\ ScenarioRuns(3) =>
          /\ frames[3].after.age = U32Of(51)
          /\ Len(frames) = 3 => context.age = U32Of(51)

C7_Witness == ScenarioRuns(3) /\ Len(frames) = 3 /\ frames[3].completed

-----------------------------------------------------------------------------
(* C8 as stated: when every Slider's value expression is within its range   *)
(* in the initial context (and the surface reports changed values inside    *)
(* the range, as ResponsesFor does), every Slider's value expression is     *)
(* within its range in every reachable context.                             *)

SlidersInRange(cfg, ctx) ==
    \A w \in Sliders(cfg) : RangeContains(w.range, as_u32(w.value, ctx))

RangeWithin(inner, outer) ==
    U32Leq(outer.start, inner.start) /\ U32Leq(inner.end, outer.end)

\* nothing but in-range slider changes writes the age a Slider reads: no
\* Button increments it, and every Slider's range lies inside the range of
\* every Slider that reads get_age
AgeWritersStayInRange(cfg) ==
    /\ \A b \in Buttons(cfg) : b.on_click # "increment_age"
    /\ \A reader \in Sliders(cfg) :
          reader.value = GetAge =>
              \A writer \in Sliders(cfg) :
                  writer.on_change = "set_age" => RangeWithin(writer.range, reader.range)

C8_SliderRangeInvariant ==
    SlidersInRange(config, HandlerContext_default) => SlidersInRange(config, context)

(* C8 amended: when, in addition, the tree has no Button with on_click      *)
(* increment_age and the range of every Slider lies inside the range of     *)
(* every Slider whose value expression is get_age, every Slider's value     *)
(* expression is within its range in every reachable context.               *)
C8_SliderRangeClosed ==
    (SlidersInRange(config, HandlerContext_default) /\ AgeWritersStayInRange(config))
        => SlidersInRange(config, context)

\* a Slider reading get_age after a slider change moved the age to the end of
\* a range
C8_Witness ==
    /\ SlidersInRange(config, HandlerContext_default)
    /\ AgeWritersStayInRange(config)
    /\ \E w \in Sliders(config) : w.value = GetAge /\ context.age = w.range.end
    /\ \E k \in FrameIds : \E j \in 1..Len(frames[k].trace) :
          IsRun(frames[k].trace[j]) /\ frames[k].trace[j].handler = "set_age"

-----------------------------------------------------------------------------
(* C10: a completed frame hands every non-layout widget of the config to    *)
(* the surface exactly once, containers in configuration order, widgets in  *)
(* declared order, a layout's children depth-first before the layout's next *)
(* sibling; a frame cut short by a panic has walked a prefix of that order; *)
(* a handler runs directly after its own widget was handed over.  The order *)
(* is that of the config the engine holds now: the frame leaves it as it    *)
(* was.                                                                     *)

DeclaredOrder(cfg) == [k \in 1..Len(ConfigLeaves(cfg)) |-> ConfigLeaves(cfg)[k][1]]

VisitOrder(f) == [k \in 1..Len(Adds(f)) |-> Adds(f)[k].path]

-----------------------------------------------------------------------------
(* Serialization (the serde derives).  A document is a tree of YAML values: *)
(* string, number and null scalars, mappings (records) and sequences.       *)
(*   - HandlerU32, HandlerString, Handler: unit variants, written as their  *)
(*     snake_case name;                                                     *)
(*   - AsU32, AsString: the unit variants are written as their snake_case   *)
(*     name, the untagged Literal variant as its bare content; reading      *)
(*     tries the named variants first and the untagged variant only when    *)
(*     none of them matches;                                                *)
(*   - Widget, Container: internally tagged, a mapping with a "type" key    *)
(*     next to the variant's fields.                                        *)

YStr(s) == [y |-> "str", s |-> s]
YNum(n) == [y |-> "num", n |-> n]
YNull == [y |-> "null"]

\* Result<T, serde_yaml::Error>
Ok(x) == [ok |-> TRUE, val |-> x]
Err == [ok |-> FALSE]

IsScalar(v, kind) == DOMAIN v \subseteq {"y", "s", "n"} /\ "y" \in DOMAIN v /\ v.y = kind

ser_unit_variant(name) == YStr(name)

de_unit_variant(v, names) ==
    IF IsScalar(v, "str") /\ v.s \in names THEN Ok(v.s) ELSE Err

ser_AsU32(expr) ==
    CASE expr.tag = "get_age" -> YStr("get_age")
      [] expr.tag = "literal" -> YNum(expr.val)

de_AsU32(v) ==
    IF IsScalar(v, "str") /\ v.s = "get_age" THEN Ok(GetAge)
    ELSE IF IsScalar(v, "num") THEN Ok(LiteralU32(v.n))
    ELSE Err

ser_AsString(expr) ==
    CASE expr.tag = "get_name" -> YStr("get_name")
      [] expr.tag = "hello" -> YStr("hello")
      [] expr.tag = "literal" -> YStr(expr.val)

de_AsString(v) ==
    IF IsScalar(v, "str") /\ v.s = "get_name" THEN Ok(GetName)
    ELSE IF IsScalar(v, "str") /\ v.s = "hello" THEN Ok(Hello)
    ELSE IF IsScalar(v, "str") THEN Ok(LiteralString(v.s))
    ELSE Err

ser_Option(o) == IF o = None THEN YNull ELSE YStr(o[1])

de_Option(v) ==
    IF IsScalar(v, "null") THEN Ok(None)
    ELSE IF IsScalar(v, "str") THEN Ok(Some(v.s))
    ELSE Err

ser_Range(r) == [start |-> YNum(r.start), end |-> YNum(r.end)]

de_Range(v) ==
    IF /\ DOMAIN v = {"start", "end"}
       /\ IsScalar(v.start, "num")
       /\ IsScalar(v.end, "num")
    THEN Ok(Range(v.start.n, v.end.n))
    ELSE Err

\* a struct whose fields were read: an error in any field fails the struct
Struct(fields, value) ==
    IF \A k \in 1..Len(fields) : fields[k].ok THEN Ok(value) ELSE Err

\* a missing Option field reads as None
OptionField(v, name) == IF name \in DOMAIN v THEN de_Option(v[name]) ELSE Ok(None)

RECURSIVE ser_Widget(_)
ser_Widget(w) ==
    CASE w.type = "label" ->
            [type |-> YStr("label"), text |-> ser_AsString(w.text), id |-> ser_Option(w.id)]
      [] w.type = "horizontal_layout" ->
            [type |-> YStr("horizontal_layout"),
             widgets |-> [i \in 1..Len(w.widgets) |-> ser_Widget(w.widgets[i])]]
      [] w.type = "text_edit" ->
            [type |-> YStr("text_edit"), value |-> ser_AsString(w.value),
             on_change |-> ser_unit_variant(w.on_change),
             label_id |-> ser_Option(w.label_id)]
      [] w.type = "slider" ->
            [type |-> YStr("slider"), range |-> ser_Range(w.range),
             text |-> ser_AsString(w.text), value |-> ser_AsU32(w.value),
             on_change |-> ser_unit_variant(w.on_change)]
      [] w.type = "button" ->
            [type |-> YStr("button"), text |-> ser_AsString(w.text),
             on_click |-> ser_unit_variant(w.on_click)]
      [] w.type = "image" ->
            [type |-> YStr("image"), src |-> ser_AsString(w.src)]

RECURSIVE de_Widget(_)

\* Vec<Widget>
de_Widgets(v) ==
    LET items == [i \in 1..Len(v) |-> de_Widget(v[i])]
    IN  Struct(items, [i \in 1..Len(v) |-> items[i].val])

de_Widget(v) ==
    LET Has(names) == names \subseteq DOMAIN v
        tag == IF "type" \in DOMAIN v /\ IsScalar(v.type, "str") THEN v.type.s ELSE ""
    IN  CASE tag = "label" /\ Has({"text"}) ->
                LET text == de_AsString(v.text)
                    id == OptionField(v, "id")
                IN  Struct(<<text, id>>, Label(text.val, id.val))
          [] tag = "horizontal_layout" /\ Has({"widgets"}) ->
                LET widgets == de_Widgets(v.widgets)
                IN  Struct(<<widgets>>, HorizontalLayout(widgets.val))
          [] tag = "text_edit" /\ Has({"value", "on_change"}) ->
                LET value == de_AsString(v.value)
                    on_change == de_unit_variant(v.on_change, {"set_name"})
                    label_id == OptionField(v, "label_id")
                IN  Struct(<<value, on_change, label_id>>,
                           TextEdit(value.val, on_change.val, label_id.val))
          [] tag = "slider" /\ Has({"range", "text", "value", "on_change"}) ->
                LET range == de_Range(v.range)
                    text == de_AsString(v.text)
                    value == de_AsU32(v.value)
                    on_change == de_unit_variant(v.on_change, {"set_age"})
                IN  Struct(<<range, text, value, on_change>>,
                           Slider(range.val, text.val, value.val, on_change.val))
          [] tag = "button" /\ Has({"text", "on_click"}) ->
                LET text == de_AsString(v.text)
                    on_click == de_unit_variant(v.on_click, {"increment_age"})
                IN  Struct(<<text, on_click>>, Button(text.val, on_click.val))
          [] tag = "image" /\ Has({"src"}) ->
                LET src == de_AsString(v.src)
                IN  Struct(<<src>>, Image(src.val))
          [] OTHER -> Err

ser_Container(c) ==
    CASE c.type = "central_panel" ->
        [type |-> YStr("central_panel"),
         widgets |-> [i \in 1..Len(c.widgets) |-> ser_Widget(c.widgets[i])]]

de_Container(v) ==
    IF /\ {"type", "widgets"} \subseteq DOMAIN v
       /\ IsScalar(v.type, "str")
       /\ v.type.s = "central_panel"
    THEN LET widgets == de_Widgets(v.widgets)
         IN  Struct(<<widgets>>, CentralPanel(widgets.val))
    ELSE Err

ser_Config(cfg) ==
    [name |-> YStr(cfg.name),
     containers |-> [i \in 1..Len(cfg.containers) |-> ser_Container(cfg.containers[i])]]

de_Config(v) ==
    IF {"name", "containers"} \subseteq DOMAIN v /\ IsScalar(v.name, "str")
    THEN LET containers == [i \in 1..Len(v.containers) |-> de_Container(v.containers[i])]
         IN  Struct(containers,
                    Config(v.name.s, [i \in 1..Len(v.containers) |-> containers[i].val]))
    ELSE Err

-----------------------------------------------------------------------------
(* The round trip: a Config is constructed, serialized, and the document is *)
(* deserialized again (as main does with config/app.yaml).                  *)

SerdeWidgets ==
    { Label(Hello, None),
      Label(LiteralString("Your name: "), Some("name_label")),
      Label(LiteralString("get_name"), None),
      Label(LiteralString("42"), Some("hello")),
      TextEdit(GetName, "set_name", Some("name_label")),
      TextEdit(LiteralString("hello"), "set_name", None),
      Slider(Range(U32Of(0), U32Of(100)), LiteralString("age"), GetAge, "set_age"),
      Slider(Range(U32Of(0), U32_MAX), Hello, LiteralU32(U32_MAX), "set_age"),
      Button(GetName, "increment_age"),
      Image(LiteralString("ferris.png")),
      HorizontalLayout(<<>>),
      HorizontalLayout(<< Label(GetName, None),
                          HorizontalLayout(<< Button(LiteralString("+"), "increment_age") >>) >>) }

RECURSIVE WidgetLists(_)
\* the widget sequences of length n
WidgetLists(n) ==
    IF n = 0
    THEN {<<>>}
    ELSE {Append(ws, w) : ws \in WidgetLists(n - 1), w \in SerdeWidgets}

SerdeConfigs ==
    {Config("empty", <<>>)}
    \cup {Config("demo", <<CentralPanel(ws)>>) :
            ws \in UNION {WidgetLists(n) : n \in 0..MaxSerdeWidgets}}
    \cup {Config("two", <<CentralPanel(<<w>>), CentralPanel(<<w>>)>>) : w \in SerdeWidgets}

NoEngine ==
    /\ config = Config("", <<>>)
    /\ context = HandlerContext_default
    /\ overflow_checks = FALSE
    /\ panicked = FALSE
    /\ frames = <<>>

SerdeInit ==
    /\ original \in SerdeConfigs
    /\ yaml = YNull
    /\ reloaded = Err
    /\ stage = "constructed"
    /\ NoEngine

Serialize ==
    /\ stage = "constructed"
    /\ yaml' = ser_Config(original)
    /\ stage' = "serialized"
    /\ UNCHANGED <<original, reloaded>>
    /\ UNCHANGED engineVars

Deserialize ==
    /\ stage = "serialized"
    /\ reloaded' = de_Config(yaml)
    /\ stage' = "reloaded"
    /\ UNCHANGED <<original, yaml>>
    /\ UNCHANGED engineVars

SerdeNext == Serialize \/ Deserialize

SerdeSpec == SerdeInit /\ [][SerdeNext]_vars

-----------------------------------------------------------------------------
(* C9: serializing a constructed Config and deserializing the document      *)
(* yields a structurally equal Config, for every widget, container,         *)
(* expression and handler variant, Literal strings that spell a named-read  *)
(* tag included.                                                            *)
C9_RoundTrip ==
    stage = "reloaded" => reloaded = Ok(original)

====
